---------------------------- MODULE Spec2Model ----------------------------
(***************************************************************************)
(* A model of m100util: the MagicRF M100 frame codec (src/src/protocol.rs), *)
(* the device session M100Device (src/src/m100.rs) and the command-line     *)
(* flows of main (src/src/main.rs).                                         *)
(*                                                                          *)
(* Bytes are the integers 0..255, byte strings are sequences of bytes.      *)
(* Every Result<T> of the code is a record whose status is "ok" or "err";   *)
(* a Rust panic (slice index out of range, arithmetic overflow in a debug   *)
(* build) is the third status "panic".                                      *)
(***************************************************************************)
EXTENDS Integers, Sequences, FiniteSets, TLC

VARIABLES
    \* ---- frame codec (make_frame / receive_response) ----
    cmd,        \* the Command handed to make_frame
    payload,    \* the payload handed to make_frame
    frame,      \* what make_frame returned
    wire,       \* the bytes the serial port delivers to receive_response
    resp,       \* what receive_response returned
    fstage,     \* position of the codec run
    \* ---- the serial port ----
    log,        \* the calls made on the port, in order (in main: since the
                \* polling loop last began a turn)
    \* ---- one call of a session operation of M100Device ----
    op,         \* the operation called and its arguments
    reply,      \* the bytes the device sends back to it
    result,     \* what the operation returned
    ostage,     \* "idle" before the call, "returned" after it
    \* ---- upload_firmware ----
    firmware,   \* the firmware image
    fw_pc,      \* the next step of upload_firmware (0: not called)
    fw_result,  \* "none", "running", then "ok", "err" or "panic"
    \* ---- the tag in front of the reader ----
    tag,        \* mem: the bytes of the bank addressed; epc: the EPC it reports;
                \* endless: it answers every read, whatever the address;
                \* faithful: it always answers, as a tag with this memory must
    \* ---- read_all_data / read_chunked_data ----
    rc,         \* the call: bank, start_address, chunk_size
    rc_pc,      \* "off", "prefix", "loop", "returned"
    rc_address, \* the local `address` of read_chunked_data
    rc_data,    \* the local `data` of read_chunked_data
    calls,      \* the read_data calls made so far: address, length, status
    rc_result,  \* what read_all_data returned
    \* ---- main ----
    action,     \* args.action: kind, bank, value
    m_version,  \* what m100.get_version() returned to main
    m_pc,       \* where main is
    m_write_data, \* the bytes decoded from value
    m_verify_data,\* the bytes read back after the write
    m_writes,   \* the write commands sent so far, counted up to MaxWrites
    out,        \* the lines printed since the current polling loop last began a turn
    exit_code   \* -1 while running; 0, 1, or 101 after a panic

frameVars == <<cmd, payload, frame, wire, resp, fstage>>
opVars == <<op, reply, result, ostage>>
fwVars == <<firmware, fw_pc, fw_result>>
rcVars == <<rc, rc_pc, rc_address, rc_data, calls, rc_result>>
mainVars ==
    <<action, m_version, m_pc, m_write_data, m_verify_data, m_writes, out, exit_code>>
vars == <<cmd, payload, frame, wire, resp, fstage, log, op, reply, result, ostage,
          firmware, fw_pc, fw_result, tag, rc, rc_pc, rc_address, rc_data, calls, rc_result,
          action, m_version, m_pc, m_write_data, m_verify_data, m_writes, out, exit_code>>

---------------------------------------------------------------------------
(* Bounds of the model *)

\* longest payload whose bytes are enumerated exhaustively
MaxPayloadLen == 2

\* longest device reply payload that is enumerated (over the bytes 'A', 'B')
MaxReplyLen == 6

\* longest firmware image
MaxFirmwareLen == 2

\* every bank length from 0 to this is tried (and some around 512 and 1024)
MaxBankLen == 17

\* the reads read_chunked_data is followed through on a tag that answers every
\* read (the 16-bit address of 512-byte chunks runs out at the 128th)
MaxChunkReads == 130

\* the write commands of main are counted up to this number
MaxWrites == 3

\* u16, the receive buffer read_buf and the command buffer pbuf
U16 == 65536
READ_BUF_LEN == 1024
PBUF_LEN == 1024
MAGICRF_HEAD == 187
MAGICRF_TAIL == 126

\* the byte values the enumerated payloads and replies are made of: zero, the
\* four device error codes 0x09 0x10 0xA3 0xB0, the terminator 0x7E and 0xFF
ByteSample == {0, 9, 16, 126, 163, 176, 255}

\* payload lengths around the limits of the receive buffer and of the 16-bit
\* length field; such payloads are filled with zero bytes
BigLens == {1017, 1018, 1019, 1020, 65535, 65536}

SeqsUpTo(S, n) == UNION {[1..k -> S] : k \in 0..n}

ZeroFill(n) == [i \in 1..n |-> 0]

Payloads == SeqsUpTo(ByteSample, MaxPayloadLen) \cup {ZeroFill(n) : n \in BigLens}

---------------------------------------------------------------------------
(* src/src/protocol.rs *)

Commands == {"GetVersion", "Idle", "Query", "ReadData", "SetHfss", "WriteData"}

\* enum Command, #[repr(u8)]
CommandCode(c) ==
    CASE c = "GetVersion" -> 3
      [] c = "Idle"       -> 4
      [] c = "Query"      -> 34
      [] c = "ReadData"   -> 57
      [] c = "SetHfss"    -> 173
      [] c = "WriteData"  -> 73

\* write_u16::<BE>(n) of a value already cast to u16
BE16(n) == <<n \div 256, n % 256>>

\* the sum of s[lo..hi], by halving so that long byte strings stay shallow
RECURSIVE SumRange(_, _, _)
SumRange(s, lo, hi) ==
    IF lo > hi THEN 0
    ELSE IF lo = hi THEN s[lo]
    ELSE LET mid == (lo + hi) \div 2
         IN SumRange(s, lo, mid) + SumRange(s, mid + 1, hi)

\* Result<Vec<u8>>: Ok(bytes), or Err
Ok(v) == [status |-> "ok", value |-> v]
Err(e) == [status |-> "err", value |-> <<>>, err |-> e]

\* packet.iter().skip(1).map(|b| *b as u32).sum(), then & 0xFF
Checksum(packet) == SumRange(packet, 2, Len(packet)) % 256

\* make_frame with the checksum taken over the whole packet, HEAD included
make_frame_sum_head(c, p) ==
    LET packet == <<MAGICRF_HEAD, 0, CommandCode(c)>> \o BE16(Len(p) % U16) \o p
    IN Ok(packet \o <<SumRange(packet, 1, Len(packet)) % 256, MAGICRF_TAIL>>)

\* make_frame: never fails (every write goes to a Vec); `payload.len() as u16`
\* keeps the low 16 bits of the length
make_frame(c, p) ==
    LET packet == <<MAGICRF_HEAD, 0, CommandCode(c)>> \o BE16(Len(p) % U16) \o p
    IN Ok(packet \o <<Checksum(packet), MAGICRF_TAIL>>)

---------------------------------------------------------------------------
(* src/src/m100.rs: receive_response *)

\* i16::from_be_bytes([hi, lo])
i16_from_be_bytes(hi, lo) ==
    LET u == hi * 256 + lo
    IN IF u >= 32768 THEN u - U16 ELSE u

\* Whether read_buf[from + length as usize .. to + length as usize] is a slice
\* of the buffer.  `length as usize` sign-extends: a negative length becomes at
\* least 2^64 - 32768, so the sum either exceeds the buffer or overflows usize
\* (a panic in a debug build; in a release build it wraps to an end below the
\* start of the slice, which panics as well).
SliceInBuf(length, to) == length >= 0 /\ to + length <= READ_BUF_LEN

Resp(st, er, pl, rd) == [status |-> st, err |-> er, payload |-> pl, reads |-> rd]

\* receive_response on a port that delivers the bytes rx and then times out.
\* Three read_exact calls (header, body, end); a read_exact that gets fewer
\* bytes than it asks for is an I/O error.  The slice handed to a read_exact is
\* taken before the call, so an out-of-range slice panics before that read.
\* reads lists the sizes of the read_exact calls that were issued.
receive_response(rx) ==
    IF Len(rx) < 5 THEN Resp("err", "io", <<>>, <<5>>)
    ELSE
    LET length == i16_from_be_bytes(rx[4], rx[5])
    IN  IF ~SliceInBuf(length, 5) THEN Resp("panic", "index", <<>>, <<5>>)
        ELSE IF Len(rx) < 5 + length THEN Resp("err", "io", <<>>, <<5, length>>)
        ELSE IF ~SliceInBuf(length, 7) THEN Resp("panic", "index", <<>>, <<5, length>>)
        ELSE IF Len(rx) < 7 + length THEN Resp("err", "io", <<>>, <<5, length, 2>>)
        ELSE IF rx[length + 7] # MAGICRF_TAIL
             THEN Resp("err", "tail", <<>>, <<5, length, 2>>)
        ELSE Resp("ok", "", SubSeq(rx, 6, 5 + length), <<5, length, 2>>)

NoResp == Resp("none", "", <<>>, <<>>)

---------------------------------------------------------------------------
(* The codec run: encode a command, put bytes on the wire, decode them *)

\* s with its last byte replaced by b
WithLast(s, b) == [s EXCEPT ![Len(s)] = b]

FrameInit ==
    /\ cmd \in Commands
    /\ payload \in Payloads
    /\ frame = [status |-> "none", value |-> <<>>]
    /\ wire = <<>>
    /\ resp = NoResp
    /\ fstage = "start"

\* protocol::make_frame(cmd, &payload)
MakeFrame ==
    /\ fstage = "start"
    /\ frame' = make_frame(cmd, payload)
    /\ fstage' = "framed"
    /\ UNCHANGED <<cmd, payload, wire, resp>>

\* the frame comes back unchanged
Loopback ==
    /\ fstage = "framed"
    /\ frame.status = "ok"
    /\ wire' = frame.value
    /\ fstage' = "wired"
    /\ UNCHANGED <<cmd, payload, frame, resp>>

\* the frame comes back with another last byte
CorruptTail ==
    /\ fstage = "framed"
    /\ frame.status = "ok"
    /\ \E b \in ByteSample \ {MAGICRF_TAIL} : wire' = WithLast(frame.value, b)
    /\ fstage' = "wired"
    /\ UNCHANGED <<cmd, payload, frame, resp>>

\* the frame comes back cut short (the rest never arrives: a timeout)
Truncate ==
    /\ fstage = "framed"
    /\ frame.status = "ok"
    /\ \E k \in {0, 4, 5, Len(frame.value) - 2, Len(frame.value) - 1} :
          wire' = SubSeq(frame.value, 1, k)
    /\ fstage' = "wired"
    /\ UNCHANGED <<cmd, payload, frame, resp>>

\* M100Device::receive_response
ReceiveResponse ==
    /\ fstage = "wired"
    /\ resp' = receive_response(wire)
    /\ fstage' = "done"
    /\ UNCHANGED <<cmd, payload, frame, wire>>

FrameNext ==
    \/ (MakeFrame /\ UNCHANGED <<log, opVars, fwVars, tag, rcVars, mainVars>>)
    \/ (Loopback /\ UNCHANGED <<log, opVars, fwVars, tag, rcVars, mainVars>>)
    \/ (CorruptTail /\ UNCHANGED <<log, opVars, fwVars, tag, rcVars, mainVars>>)
    \/ (Truncate /\ UNCHANGED <<log, opVars, fwVars, tag, rcVars, mainVars>>)
    \/ (ReceiveResponse /\ UNCHANGED <<log, opVars, fwVars, tag, rcVars, mainVars>>)

---------------------------------------------------------------------------
(* src/src/protocol.rs: the command builders *)

Banks == {"Reserved", "Epc", "Tid", "User"}

\* enum MemoryBank, #[repr(u8)]
BankCode(b) ==
    CASE b = "Reserved" -> 0
      [] b = "Epc"      -> 1
      [] b = "Tid"      -> 2
      [] b = "User"     -> 3

\* enum HfssStatus, #[repr(u8)]
HfssCode(h) == IF h = "Auto" THEN 255 ELSE 0

\* pub static DEFAULT_PASSWORD: [u8; 8] = [0x30; 8]
DEFAULT_PASSWORD == [i \in 1..8 |-> 48]

protocol_get_version == make_frame("GetVersion", <<0>>)

protocol_set_hfss_status(status) == make_frame("SetHfss", <<HfssCode(status)>>)

protocol_query == make_frame("Query", <<0, 0>>)

protocol_idle == make_frame("Idle", <<0, 1, 0>>)

protocol_read_data(password, bank, address, data_length) ==
    make_frame("ReadData",
               password \o <<BankCode(bank)>> \o BE16(address) \o BE16(data_length))

\* panics for the Epc bank ("use write_epc instead"): status "panic"
protocol_write_data(password, bank, address, data) ==
    IF bank = "Epc" THEN [status |-> "panic", value |-> <<>>]
    ELSE make_frame("WriteData",
                    password \o <<BankCode(bank)>> \o BE16(address)
                        \o BE16(Len(data) % U16) \o data)

\* pc = ((data.len() as u16) << 10) & 0xF800
protocol_write_epc(password, data) ==
    LET pc == ((((Len(data) % U16) * 1024) % U16) \div 2048) * 2048
    IN make_frame("WriteData",
                  password \o <<BankCode("Epc"), 0, 1>> \o BE16(Len(data) % U16)
                      \o BE16(pc) \o data)

---------------------------------------------------------------------------
(* m100_sys: the vendor encoder behind the foreign calls of m100.rs.  Each     *)
(* routine fills pbuf with one command frame and returns its length; here it  *)
(* yields the bytes pbuf[0..len].  The routines are not part of the sources:  *)
(* they are taken to build the frames section 4.2 of the specification        *)
(* describes, which protocol.rs builds as well.                               *)

m100_sys_readData(password, bank, address, words) ==
    protocol_read_data(password, bank, address, words).value

m100_sys_writeData(password, bank, address, data) ==
    protocol_write_data(password, bank, address, data).value

m100_sys_writeEPC(password, data) == protocol_write_epc(password, data).value

m100_sys_idle == protocol_idle.value

---------------------------------------------------------------------------
(* The serial port: every call is logged; ok tells whether it returned Ok *)

\* arg: the bytes written, the size read, the baud rate or the milliseconds
\* slept; got: the bytes a read delivered
Ev(o, a, k) == [op |-> o, arg |-> a, ok |-> k, got |-> <<>>]
EvRead(n, k, g) == [op |-> "read", arg |-> <<n>>, ok |-> k, got |-> g]

\* which port call of a write-then-flush pair fails with an I/O error
Faults == {"none", "write", "flush"}

\* a send that writes and leaves the flush out
PortSendNoFlush(bytes, fault) ==
    IF fault = "write"
    THEN [status |-> "err", events |-> <<Ev("write", bytes, FALSE)>>]
    ELSE [status |-> "ok", events |-> <<Ev("write", bytes, TRUE)>>]

\* self.port.write(bytes)?; self.port.flush()?;
PortSend(bytes, fault) ==
    IF fault = "write"
    THEN [status |-> "err", events |-> <<Ev("write", bytes, FALSE)>>]
    ELSE IF fault = "flush"
    THEN [status |-> "err",
          events |-> <<Ev("write", bytes, TRUE), Ev("flush", <<>>, FALSE)>>]
    ELSE [status |-> "ok",
          events |-> <<Ev("write", bytes, TRUE), Ev("flush", <<>>, TRUE)>>]

Min(a, b) == IF a <= b THEN a ELSE b

\* the read_exact calls of one receive_response of the bytes rx; the last one
\* failed when the response ended in an I/O error
ReadEvents(r, rx) ==
    [i \in 1..Len(r.reads) |->
        LET from == IF i = 1 THEN 0 ELSE IF i = 2 THEN 5 ELSE 5 + r.reads[2]
        IN EvRead(r.reads[i],
                  ~(i = Len(r.reads) /\ r.err = "io"),
                  SubSeq(rx, from + 1, Min(from + r.reads[i], Len(rx))))]

---------------------------------------------------------------------------
(* src/src/m100.rs: the session operations.  Each takes, after its own       *)
(* arguments, the bytes rx the device answers with and the port fault, and   *)
(* yields its Result with the port calls it made.                            *)

R(st, er, val, ev) == [status |-> st, err |-> er, value |-> val, events |-> ev]

\* send_command: &self.pbuf[0..len] panics when len exceeds the buffer
send_command(bytes, fault) ==
    IF Len(bytes) > PBUF_LEN THEN [status |-> "panic", events |-> <<>>]
    ELSE PortSend(bytes, fault)

\* a command frame was sent (sent is the outcome of the send): receive the
\* response; value is its payload
RoundTrip(sent, rx) ==
    IF sent.status # "ok"
    THEN R(sent.status, IF sent.status = "err" THEN "io" ELSE "index", <<>>, sent.events)
    ELSE LET r == receive_response(rx)
         IN R(r.status, r.err, r.payload, sent.events \o ReadEvents(r, rx))

\* let res = self.receive_response()?; then what the operation makes of res
Finish(t, d) ==
    IF t.status # "ok" THEN t ELSE R(d.status, d.err, d.value, t.events)

D(st, er, val) == [status |-> st, err |-> er, value |-> val]

\* std::str::from_utf8: whether s[i..] is well-formed UTF-8
IsCont(b) == b \in 128..191
RECURSIVE Utf8From(_, _)
Utf8From(s, i) ==
    IF i > Len(s) THEN TRUE
    ELSE LET b == s[i]
             n == Len(s)
         IN IF b < 128 THEN Utf8From(s, i + 1)
            ELSE IF b \in 194..223
                 THEN i + 1 <= n /\ IsCont(s[i + 1]) /\ Utf8From(s, i + 2)
            ELSE IF b \in 224..239
                 THEN /\ i + 2 <= n
                      /\ s[i + 1] \in (IF b = 224 THEN 160..191
                                       ELSE IF b = 237 THEN 128..159 ELSE 128..191)
                      /\ IsCont(s[i + 2])
                      /\ Utf8From(s, i + 3)
            ELSE IF b \in 240..244
                 THEN /\ i + 3 <= n
                      /\ s[i + 1] \in (IF b = 240 THEN 144..191
                                       ELSE IF b = 244 THEN 128..143 ELSE 128..191)
                      /\ IsCont(s[i + 2])
                      /\ IsCont(s[i + 3])
                      /\ Utf8From(s, i + 4)
            ELSE FALSE

\* get_version: Ok(std::str::from_utf8(res)?), the string kept as its bytes
get_version_decide(res) ==
    IF Utf8From(res, 1) THEN D("ok", "", res) ELSE D("err", "utf8", <<>>)

get_version(rx, fault) ==
    LET command == protocol_get_version
        t == RoundTrip(PortSend(command.value, fault), rx)
    IN Finish(t, get_version_decide(t.value))

\* set_hfss_status: the response is received and dropped
set_hfss_status_decide(res) == D("ok", "", <<>>)

set_hfss_status(status, rx, fault) ==
    LET command == protocol_set_hfss_status(status)
        t == RoundTrip(PortSend(command.value, fault), rx)
    IN Finish(t, set_hfss_status_decide(t.value))

\* hex::encode(bytes).to_uppercase(): two digits per byte, characters as
\* one-character strings
HexLower == <<"0", "1", "2", "3", "4", "5", "6", "7",
              "8", "9", "a", "b", "c", "d", "e", "f">>
ToUpper(ch) ==
    CASE ch = "a" -> "A" [] ch = "b" -> "B" [] ch = "c" -> "C"
      [] ch = "d" -> "D" [] ch = "e" -> "E" [] ch = "f" -> "F"
      [] OTHER -> ch
hex_encode(bytes) ==
    [i \in 1..(2 * Len(bytes)) |->
        LET b == bytes[(i + 1) \div 2]
        IN IF i % 2 = 1 THEN HexLower[(b \div 16) + 1] ELSE HexLower[(b % 16) + 1]]
to_uppercase(str) == [i \in 1..Len(str) |-> ToUpper(str[i])]

\* query: Option<TagInfo> as a sequence of zero or one TagInfo.
\* res[3..res.len() - 2] panics when the slice starts after its end (a
\* payload of 2, 3 or 4 bytes)
query_decide(res) ==
    IF Len(res) <= 1 THEN D("ok", "", <<>>)
    ELSE IF 3 > Len(res) - 2 THEN D("panic", "index", <<>>)
    ELSE D("ok", "",
           <<[rssi |-> res[1],
              epc |-> to_uppercase(hex_encode(SubSeq(res, 4, Len(res) - 2)))]>>)

query(rx, fault) ==
    LET command == protocol_query
        t == RoundTrip(PortSend(command.value, fault), rx)
    IN Finish(t, query_decide(t.value))

read_data_decide(res) ==
    IF Len(res) = 1 /\ res[1] = 9 THEN D("err", "HEXIN_FAIL_READ", <<>>)
    ELSE IF Len(res) = 1 /\ res[1] = 163
    THEN D("err", "HEXIN_ERROR_READ_MEMORY_OVERRUN", <<>>)
    ELSE D("ok", "", res)

\* read_data that rejects odd lengths only
read_data_valid_odd_only(data_length) == data_length % 2 = 0

\* the length check of read_data: a positive even number
read_data_valid(data_length) == ~(data_length % 2 # 0 \/ data_length = 0)

read_data(password, bank, address, data_length, rx, fault) ==
    IF ~read_data_valid(data_length) THEN R("err", "validation", <<>>, <<>>)
    ELSE LET command == m100_sys_readData(password, bank, address, data_length \div 2)
             t == RoundTrip(send_command(command, fault), rx)
         IN Finish(t, read_data_decide(t.value))

write_data_decide(res) ==
    IF Len(res) = 1 /\ res[1] = 176 THEN D("err", "HEXIN_ERROR_WRITE", <<>>)
    ELSE IF Len(res) = 1 /\ res[1] = 16 THEN D("err", "HEXIN_FAIL_WRITE", <<>>)
    ELSE D("ok", "", <<>>)

write_data(password, bank, address, data, rx, fault) ==
    LET command == IF bank = "Epc" THEN m100_sys_writeEPC(password, data)
                   ELSE m100_sys_writeData(password, bank, address, data)
        t == RoundTrip(send_command(command, fault), rx)
    IN Finish(t, write_data_decide(t.value))

disable_sleep_decide(res) == D("ok", "", <<>>)

disable_sleep(rx, fault) ==
    LET command == m100_sys_idle
        t == RoundTrip(send_command(command, fault), rx)
    IN Finish(t, disable_sleep_decide(t.value))

---------------------------------------------------------------------------
(* One call of a session operation against a device that may answer anything *)

\* reply payloads: everything up to one byte of ByteSample (the error codes
\* among them) and every string of 'A' and 'B' up to MaxReplyLen bytes
ReplyPayloads == SeqsUpTo(ByteSample, 1) \cup SeqsUpTo({65, 66}, MaxReplyLen)

\* a frame as the device sends it: the layout of section 3
DeviceFrame(c, p) == make_frame(c, p).value

\* what may arrive after a command c: a well-terminated frame, a frame with a
\* wrong last byte, nothing at all (a timeout), a frame cut short, or a frame
\* whose header announces more than the receive buffer holds
OpReplies(c) ==
    {DeviceFrame(c, p) : p \in ReplyPayloads}
        \cup {WithLast(DeviceFrame(c, p), 0) : p \in SeqsUpTo(ByteSample, 1)}
        \cup {<<>>, SubSeq(DeviceFrame(c, <<65, 66>>), 1, 6)}
        \cup {DeviceFrame(c, ZeroFill(1018))}

\* the reply and the port fault of one round trip: a call that fails on the
\* port is never answered
Exchanges(c) ==
    {<<rx, "none">> : rx \in OpReplies(c)} \cup {<<<<>>, f>> : f \in Faults \ {"none"}}

NoResult == R("none", "", <<>>, <<>>)

OpInit ==
    /\ log = <<>>
    /\ op = [name |-> "none"]
    /\ reply = <<>>
    /\ result = NoResult
    /\ ostage = "idle"

Returned(o, rx, r) ==
    /\ op' = o
    /\ reply' = rx
    /\ result' = r
    /\ log' = log \o r.events
    /\ ostage' = "returned"

CallGetVersion ==
    /\ ostage = "idle"
    /\ \E x \in Exchanges("GetVersion") :
          Returned([name |-> "get_version"], x[1], get_version(x[1], x[2]))

CallSetHfssStatus ==
    /\ ostage = "idle"
    /\ \E status \in {"Auto", "Stop"}, x \in Exchanges("SetHfss") :
          Returned([name |-> "set_hfss_status", status |-> status], x[1],
                   set_hfss_status(status, x[1], x[2]))

CallQuery ==
    /\ ostage = "idle"
    /\ \E x \in Exchanges("Query") :
          Returned([name |-> "query"], x[1], query(x[1], x[2]))

\* the u16 lengths read_data is called with: zero, odd, even, the chunk sizes
\* and the ends of the range
ReadLengths == {0, 1, 2, 3, 4, 12, 511, 512, 65534, 65535}

CallReadData ==
    /\ ostage = "idle"
    /\ \E bank \in Banks, address \in {0, 12}, data_length \in ReadLengths,
          x \in Exchanges("ReadData") :
          Returned([name |-> "read_data", bank |-> bank, address |-> address,
                    data_length |-> data_length], x[1],
                   read_data(DEFAULT_PASSWORD, bank, address, data_length, x[1], x[2]))

CallWriteData ==
    /\ ostage = "idle"
    /\ \E bank \in Banks, data \in SeqsUpTo({65, 66}, 2), x \in Exchanges("WriteData") :
          Returned([name |-> "write_data", bank |-> bank, address |-> 0, data |-> data],
                   x[1], write_data(DEFAULT_PASSWORD, bank, 0, data, x[1], x[2]))

CallDisableSleep ==
    /\ ostage = "idle"
    /\ \E x \in Exchanges("Idle") :
          Returned([name |-> "disable_sleep"], x[1], disable_sleep(x[1], x[2]))

OpNext ==
    \/ (CallGetVersion /\ UNCHANGED <<frameVars, fwVars, tag, rcVars, mainVars>>)
    \/ (CallSetHfssStatus /\ UNCHANGED <<frameVars, fwVars, tag, rcVars, mainVars>>)
    \/ (CallQuery /\ UNCHANGED <<frameVars, fwVars, tag, rcVars, mainVars>>)
    \/ (CallReadData /\ UNCHANGED <<frameVars, fwVars, tag, rcVars, mainVars>>)
    \/ (CallWriteData /\ UNCHANGED <<frameVars, fwVars, tag, rcVars, mainVars>>)
    \/ (CallDisableSleep /\ UNCHANGED <<frameVars, fwVars, tag, rcVars, mainVars>>)

\* the codec variables at rest
FrameIdle ==
    /\ cmd = "Idle"
    /\ payload = <<>>
    /\ frame = [status |-> "none", value |-> <<>>]
    /\ wire = <<>>
    /\ resp = NoResp
    /\ fstage = "off"


---------------------------------------------------------------------------
(* src/src/m100.rs: upload_firmware, one port call per step *)

Firmwares == SeqsUpTo({170, 85}, MaxFirmwareLen)

I(st, o, a, e) == [stage |-> st, op |-> o, arg |-> a, expect |-> e]

\* upload_firmware with the link switched to 115200 baud before 0xB5 is sent
UploadProgramBaudFirst(fw) ==
    << I("Probe", "baud", <<9600>>, 0),
       I("Probe", "write", <<254>>, 0),
       I("Probe", "flush", <<>>, 0),
       I("Probe", "read", <<1>>, 255),
       I("SpeedUp", "baud", <<115200>>, 0),
       I("SpeedUp", "write", <<181>>, 0),
       I("SpeedUp", "flush", <<>>, 0),
       I("SpeedUp", "sleep", <<50>>, 0),
       I("Arm", "write", <<255, 219>>, 0),
       I("Arm", "flush", <<>>, 0),
       I("Arm", "read", <<1>>, 191),
       I("Arm", "write", <<253>>, 0),
       I("Arm", "flush", <<>>, 0),
       I("Stream", "write", fw, 0),
       I("Stream", "flush", <<>>, 0),
       I("Settle", "disable_sleep", <<>>, 0) >>

\* the statements of upload_firmware, in order; expect is the byte a read
\* must deliver
UploadProgram(fw) ==
    << I("Probe", "baud", <<9600>>, 0),           \* set_baud_rate(9600)?
       I("Probe", "write", <<254>>, 0),           \* write(&[0xFE])?
       I("Probe", "flush", <<>>, 0),
       I("Probe", "read", <<1>>, 255),            \* read_buf[0] != 0xFF: Err
       I("SpeedUp", "write", <<181>>, 0),         \* write(&[0xB5])?
       I("SpeedUp", "flush", <<>>, 0),
       I("SpeedUp", "sleep", <<50>>, 0),          \* sleep(50 ms)
       I("SpeedUp", "baud", <<115200>>, 0),       \* set_baud_rate(115200)?
       I("Arm", "write", <<255, 219>>, 0),        \* write(&[0xFF, 0xDB])?
       I("Arm", "flush", <<>>, 0),
       I("Arm", "read", <<1>>, 191),              \* read_buf[0] != 0xBF: Err
       I("Arm", "write", <<253>>, 0),             \* write(&[0xFD])?
       I("Arm", "flush", <<>>, 0),
       I("Stream", "write", fw, 0),               \* write(firmware)?
       I("Stream", "flush", <<>>, 0),
       I("Settle", "disable_sleep", <<>>, 0) >>   \* self.disable_sleep()?

\* a check of a handshake byte that lets every byte pass
ReplyAcceptedAny(ins, b) == TRUE

\* if self.read_buf[0] != expected { return Err(..) }
ReplyAccepted(ins, b) == b = ins.expect

\* the bytes the device may answer a handshake byte with (<<>>: none, a timeout)
HandshakeReplies == {<<>>, <<255>>, <<191>>, <<0>>, <<254>>}

FwFinish(st) ==
    /\ fw_result' = st
    /\ fw_pc' = Len(UploadProgram(firmware)) + 1

FwAdvance == fw_pc' = fw_pc + 1 /\ UNCHANGED fw_result

\* one step of upload_firmware inside stage st
FwStep(st) ==
    /\ fw_result = "running"
    /\ fw_pc \in 1..Len(UploadProgram(firmware))
    /\ LET ins == UploadProgram(firmware)[fw_pc]
       IN /\ ins.stage = st
          /\ \/ /\ ins.op \in {"baud", "write", "flush"}
                /\ \E ok \in BOOLEAN :
                      /\ log' = Append(log, Ev(ins.op, ins.arg, ok))
                      /\ IF ok THEN FwAdvance ELSE FwFinish("err")
             \/ /\ ins.op = "sleep"
                /\ log' = Append(log, Ev(ins.op, ins.arg, TRUE))
                /\ FwAdvance
             \/ /\ ins.op = "read"
                /\ \E g \in HandshakeReplies :
                      /\ log' = Append(log, EvRead(1, g # <<>>, g))
                      /\ IF g # <<>> /\ ReplyAccepted(ins, g[1])
                         THEN FwAdvance ELSE FwFinish("err")
             \/ /\ ins.op = "disable_sleep"
                /\ \E x \in Exchanges("Idle") :
                      LET r == disable_sleep(x[1], x[2])
                      IN /\ log' = log \o r.events
                         /\ FwFinish(r.status)
    /\ UNCHANGED firmware

\* upload_firmware(&firmware) is called
FwCall ==
    /\ fw_pc = 0
    /\ fw_pc' = 1
    /\ fw_result' = "running"
    /\ UNCHANGED <<firmware, log>>

Probe == FwStep("Probe")
SpeedUp == FwStep("SpeedUp")
Arm == FwStep("Arm")
Stream == FwStep("Stream")
Settle == FwStep("Settle")

FwNext ==
    \/ (FwCall /\ UNCHANGED <<frameVars, opVars, tag, rcVars, mainVars>>)
    \/ (Probe /\ UNCHANGED <<frameVars, opVars, tag, rcVars, mainVars>>)
    \/ (SpeedUp /\ UNCHANGED <<frameVars, opVars, tag, rcVars, mainVars>>)
    \/ (Arm /\ UNCHANGED <<frameVars, opVars, tag, rcVars, mainVars>>)
    \/ (Stream /\ UNCHANGED <<frameVars, opVars, tag, rcVars, mainVars>>)
    \/ (Settle /\ UNCHANGED <<frameVars, opVars, tag, rcVars, mainVars>>)

\* upload_firmware not in use
FwIdle ==
    /\ firmware = <<>>
    /\ fw_pc = 0
    /\ fw_result = "none"

---------------------------------------------------------------------------
(* The tag: a simulated bank of known finite length.  A read of n bytes at   *)
(* address a succeeds while a + n stays inside the bank and fails once it    *)
(* does not.                                                                 *)

\* the byte stored at address a of a fresh bank
TagByte(a) == (a * 7 + 1) % 256

FreshBank(n) == [i \in 1..n |-> TagByte(i - 1)]

BankLens == (0..MaxBankLen) \cup {511, 512, 1024, 1030}

\* the ways a read that is out of range fails: the device reports
\* read-memory-overrun (0xA3) or fail-read (0x09), it answers with a frame that
\* does not end in 0x7E, it does not answer (a timeout), or the port fails
ReadFailures ==
    { <<DeviceFrame("ReadData", <<163>>), "none">>,
      <<DeviceFrame("ReadData", <<9>>), "none">>,
      <<WithLast(DeviceFrame("ReadData", <<163>>), 0), "none">>,
      <<<<>>, "none">>,
      <<<<>>, "write">> }

\* what the tag answers to a read of n bytes at address a
BankExchanges(mem, a, n) ==
    IF a + n <= Len(mem)
    THEN { <<DeviceFrame("ReadData", SubSeq(mem, a + 1, a + n)), "none">> }
    ELSE ReadFailures

\* a tag that answers every read does so with the two bytes at the address
\* (read_data takes a response of any length for the chunk); a faithful tag
\* reports read-memory-overrun for a read past the end of its bank
TagExchanges(t, a, n) ==
    IF t.endless
    THEN { <<DeviceFrame("ReadData", <<TagByte(a), TagByte(a + 1)>>), "none">> }
    ELSE IF t.faithful /\ a + n > Len(t.mem)
    THEN { <<DeviceFrame("ReadData", <<163>>), "none">> }
    ELSE BankExchanges(t.mem, a, n)

\* the tags read_all_data is run against
SimTags ==
    {[mem |-> FreshBank(n), epc |-> <<>>, endless |-> FALSE, faithful |-> FALSE] :
        n \in BankLens}
        \cup {[mem |-> <<>>, epc |-> <<>>, endless |-> TRUE, faithful |-> FALSE]}

---------------------------------------------------------------------------
(* src/src/m100.rs: read_all_data and read_chunked_data, one read_data call  *)
(* per step                                                                  *)

\* read_all_data: the start address and the chunk size of each bank
StartAddress(bank) == IF bank = "Epc" THEN 12 ELSE IF bank = "Tid" THEN 4 ELSE 0
ChunkSize(bank) == IF bank = "User" THEN 512 ELSE 2

Call(a, n, st, er) == [address |-> a, data_length |-> n, status |-> st, err |-> er]

\* the access passwords read_all_data is called with
Passwords == {DEFAULT_PASSWORD, [i \in 1..8 |-> i]}

\* read_all_data that takes every bank for readable
ReadableAll(bank) == TRUE

\* MemoryBank::Reserved => Err(..): not a bank read_all_data reads
Readable(bank) == bank # "Reserved"

\* read_all_data(password, bank) is called
ReadAllDataWith(password, bank) ==
    /\ rc_pc = "off"
    /\ rc' = [bank |-> bank, start_address |-> StartAddress(bank),
              chunk_size |-> ChunkSize(bank), password |-> password]
    /\ rc_data' = <<>>
    /\ calls' = <<>>
    /\ IF ~Readable(bank)
       THEN /\ rc_pc' = "returned"
            /\ rc_result' = R("err", "validation", <<>>, <<>>)
            /\ rc_address' = 0
       ELSE /\ rc_pc' = IF StartAddress(bank) # 0 THEN "prefix" ELSE "loop"
            /\ rc_result' = NoResult
            /\ rc_address' = StartAddress(bank)
    /\ UNCHANGED <<log, tag>>

\* read_all_data(&DEFAULT_PASSWORD, bank), as main calls it
ReadAllData(bank) == ReadAllDataWith(DEFAULT_PASSWORD, bank)

\* read_chunked_data with a failed prefix read taken for the end of the bank
PrefixFailedIsEnd(r) ==
    /\ rc_pc' = "returned"
    /\ rc_result' = R("ok", "", rc_data, <<>>)

\* let start_data = self.read_data(password, bank, 0, start_address)?;
PrefixFailed(r) ==
    /\ rc_pc' = "returned"
    /\ rc_result' = R(r.status, r.err, <<>>, <<>>)

\* if start_address != 0 { read [0, start_address) and append it }
PrefixRead ==
    /\ rc_pc = "prefix"
    /\ \E x \in TagExchanges(tag, 0, rc.start_address) :
          LET r == read_data(rc.password, rc.bank, 0, rc.start_address, x[1], x[2])
          IN /\ log' = log \o r.events
             /\ calls' = Append(calls, Call(0, rc.start_address, r.status, r.err))
             /\ IF r.status = "ok"
                THEN /\ rc_data' = rc_data \o r.value
                     /\ rc_pc' = "loop"
                     /\ UNCHANGED rc_result
                ELSE /\ PrefixFailed(r)
                     /\ UNCHANGED rc_data
    /\ UNCHANGED <<rc, rc_address, tag>>

\* one turn of the loop: read_data(password, bank, address, chunk_size);
\* Ok(chunk): append it and advance; Err: return Ok(data).
\* `address += chunk_size` on a u16: past 65535 it panics in a debug build and
\* wraps around in a release build.
ChunkRead ==
    /\ rc_pc = "loop"
    /\ tag.endless => Len(calls) < MaxChunkReads
    /\ \E x \in TagExchanges(tag, rc_address, rc.chunk_size) :
          LET r == read_data(rc.password, rc.bank, rc_address, rc.chunk_size, x[1], x[2])
          IN /\ log' = log \o r.events
             /\ calls' = Append(calls, Call(rc_address, rc.chunk_size, r.status, r.err))
             /\ IF r.status = "ok"
                THEN IF rc_address + rc.chunk_size < U16
                     THEN /\ rc_data' = rc_data \o r.value
                          /\ rc_address' = rc_address + rc.chunk_size
                          /\ UNCHANGED <<rc_pc, rc_result>>
                     ELSE \/ /\ rc_pc' = "returned"
                             /\ rc_result' = R("panic", "overflow", <<>>, <<>>)
                             /\ UNCHANGED <<rc_data, rc_address>>
                          \/ /\ rc_data' = rc_data \o r.value
                             /\ rc_address' = (rc_address + rc.chunk_size) % U16
                             /\ UNCHANGED <<rc_pc, rc_result>>
                ELSE IF r.status = "err"
                THEN /\ rc_pc' = "returned"
                     /\ rc_result' = R("ok", "", rc_data, <<>>)
                     /\ UNCHANGED <<rc_data, rc_address>>
                ELSE /\ rc_pc' = "returned"
                     /\ rc_result' = R("panic", r.err, <<>>, <<>>)
                     /\ UNCHANGED <<rc_data, rc_address>>
    /\ UNCHANGED <<rc, tag>>

\* read_all_data is called once, on any bank
CallReadAllData == \E password \in Passwords, bank \in Banks : ReadAllDataWith(password, bank)

RcNext ==
    \/ (CallReadAllData /\ UNCHANGED <<frameVars, opVars, fwVars, mainVars>>)
    \/ (PrefixRead /\ UNCHANGED <<frameVars, opVars, fwVars, mainVars>>)
    \/ (ChunkRead /\ UNCHANGED <<frameVars, opVars, fwVars, mainVars>>)

\* read_all_data not in use
RcIdle ==
    /\ rc = [bank |-> "User", start_address |-> 0, chunk_size |-> 512,
             password |-> DEFAULT_PASSWORD]
    /\ rc_pc = "off"
    /\ rc_address = 0
    /\ rc_data = <<>>
    /\ calls = <<>>
    /\ rc_result = NoResult

NoTag == [mem |-> <<>>, epc |-> <<>>, endless |-> FALSE, faithful |-> FALSE]

---------------------------------------------------------------------------
(* src/src/main.rs *)

\* hex::decode: two hex digits of either case per byte; an odd length or
\* another character is an error
HexVal(ch) ==
    CASE ch = "0" -> 0 [] ch = "1" -> 1 [] ch = "2" -> 2 [] ch = "3" -> 3
      [] ch = "4" -> 4 [] ch = "5" -> 5 [] ch = "6" -> 6 [] ch = "7" -> 7
      [] ch = "8" -> 8 [] ch = "9" -> 9
      [] ch \in {"a", "A"} -> 10 [] ch \in {"b", "B"} -> 11
      [] ch \in {"c", "C"} -> 12 [] ch \in {"d", "D"} -> 13
      [] ch \in {"e", "E"} -> 14 [] ch \in {"f", "F"} -> 15
      [] OTHER -> -1

hex_decode(str) ==
    IF Len(str) % 2 # 0 \/ \E i \in 1..Len(str) : HexVal(str[i]) < 0
    THEN Err("hex")
    ELSE Ok([i \in 1..(Len(str) \div 2) |->
                16 * HexVal(str[2 * i - 1]) + HexVal(str[2 * i])])

\* if write_data != verify_data taken for "verify_data does not begin with
\* write_data"
VerifiedByPrefix(w, v) == Len(v) >= Len(w) /\ SubSeq(v, 1, Len(w)) = w

\* the comparison of main: write_data != verify_data is a verification failure
Verified(w, v) == w = v

\* the tag's answers to a Query (a faithful tag always reports itself): no
\* tag in the field (a one-byte payload), the
\* tag (RSSI, PC, EPC, CRC), no answer, or a tag answer cut to three bytes
QueryExchanges(t) ==
    IF t.faithful
    THEN { <<DeviceFrame("Query", <<200, 48, 0>> \o t.epc \o <<18, 52>>), "none">> }
    ELSE
    { <<DeviceFrame("Query", <<21>>), "none">>,
      <<DeviceFrame("Query", <<200, 48, 0>> \o t.epc \o <<18, 52>>), "none">>,
      <<<<>>, "none">>,
      <<DeviceFrame("Query", <<200, 48, 0>>), "none">> }

\* the device's answers to GetVersion: a version string, a byte that is not
\* UTF-8, a frame longer than the receive buffer, no answer, a port failure
VersionExchanges ==
    { <<DeviceFrame("GetVersion", <<77, 49, 48, 48>>), "none">>,
      <<DeviceFrame("GetVersion", <<255>>), "none">>,
      <<DeviceFrame("GetVersion", ZeroFill(1018)), "none">>,
      <<<<>>, "none">>,
      <<<<>>, "write">> }

\* d stored at address 0 of the bank, or as the EPC
Stored(t, bank, d) ==
    IF bank = "Epc" THEN [t EXCEPT !.epc = d]
    ELSE [t EXCEPT !.mem = d \o SubSeq(t.mem, Len(d) + 1, Len(t.mem))]

\* d with its first byte changed
Garbled(d) == IF d = <<>> THEN d ELSE [d EXCEPT ![1] = (d[1] + 1) % 256]

\* the tag's answers to a write of d, each with the tag as it is afterwards
\* (a faithful tag accepts the write and stores d):
\* it stores d, it stores other bytes, it refuses (0x10), it does not answer
WriteExchanges(t, bank, d) ==
    IF t.faithful /\ (bank = "Epc" \/ Len(d) <= Len(t.mem))
    THEN { <<DeviceFrame("WriteData", <<0>>), "none", Stored(t, bank, d)>> }
    ELSE
    (IF bank = "Epc" \/ Len(d) <= Len(t.mem)
     THEN { <<DeviceFrame("WriteData", <<0>>), "none", Stored(t, bank, d)>>,
            <<DeviceFrame("WriteData", <<0>>), "none", Stored(t, bank, Garbled(d))>> }
     ELSE { <<DeviceFrame("WriteData", <<176>>), "none", t>> })
        \cup { <<DeviceFrame("WriteData", <<16>>), "none", t>>,
               <<<<>>, "none", t>> }

CliBanks == {"Epc", "Tid", "User"}

\* the hex strings given on the command line
Values == { <<"D", "E", "A", "D", "B", "E", "E", "F">>, <<"b", "e", "e", "f">>,
            <<"X", "Y">> }

Actions ==
    {[kind |-> "Identify", bank |-> "Epc", value |-> <<>>]}
        \cup {[kind |-> "Read", bank |-> b, value |-> <<>>] : b \in CliBanks}
        \cup {[kind |-> "Write", bank |-> b, value |-> v] : b \in CliBanks, v \in Values}

\* an identify that is never recognised
IsIdentifyNever(a) == FALSE

\* if args.action == Action::Identify
IsIdentify(a) == a.kind = "Identify"

Exit(code, lines) ==
    /\ m_pc' = "exit"
    /\ exit_code' = code
    /\ out' = out \o lines

\* a panic unwinds main: exit status 101
Crash == Exit(101, <<>>)

\* serialport::new(..).open(), set_timeout(..).unwrap() and
\* clear(..).unwrap(), M100Device::new(port)
MainOpen ==
    /\ m_pc = "open"
    /\ \E e \in {"ok", "open", "unwrap", "new"} :
          CASE e = "ok" -> m_pc' = "get_version" /\ UNCHANGED <<out, exit_code>>
            [] e = "open" -> Exit(1, <<"Failed to open serial port">>)
            [] e = "unwrap" -> Crash
            [] e = "new" -> Exit(1, <<"Failed to create M100Device.">>)
    /\ UNCHANGED <<action, m_version, m_write_data, m_verify_data, m_writes, log, tag, rcVars>>

\* m100.get_version(), then the identify subcommand or the way to the loops
MainGetVersion ==
    /\ m_pc = "get_version"
    /\ \E x \in VersionExchanges :
          LET r == get_version(x[1], x[2])
          IN /\ log' = log \o r.events
             /\ m_version' = D(r.status, r.err, r.value)
             /\ CASE r.status = "panic" -> Crash
                  [] r.status = "err" -> Exit(1, <<"Failed to identify device.">>)
                  [] r.status = "ok" /\ IsIdentify(action) -> Exit(0, <<"Identity">>)
                  [] OTHER ->
                        /\ m_pc' = IF action.kind = "Read" THEN "read_poll" ELSE "write_poll"
                        /\ out' = out \o <<"Connected", "Waiting for a tag...">>
                        /\ UNCHANGED exit_code
    /\ UNCHANGED <<action, m_write_data, m_verify_data, m_writes, tag, rcVars>>

\* Action::Read, the top of the loop: if let Ok(Some(qr)) = m100.query()
MainReadPoll ==
    /\ m_pc = "read_poll"
    /\ \E x \in QueryExchanges(tag) :
          LET r == query(x[1], x[2])
          IN /\ log' = r.events
             /\ IF r.status = "panic" THEN Crash
                ELSE IF r.status = "ok" /\ r.value # <<>>
                THEN IF action.bank = "Epc"
                     THEN /\ m_pc' = "exit"
                          /\ exit_code' = 0
                          /\ out' = <<"Tag found!">>
                     ELSE /\ m_pc' = "read_call"
                          /\ out' = <<"Tag found!">>
                          /\ UNCHANGED exit_code
                ELSE /\ out' = <<>>
                     /\ UNCHANGED <<m_pc, exit_code>>
    /\ UNCHANGED <<action, m_version, m_write_data, m_verify_data, m_writes, tag, rcVars>>

\* m100.read_all_data(&DEFAULT_PASSWORD, bank) is called
MainReadCall ==
    /\ m_pc = "read_call"
    /\ ReadAllData(action.bank)
    /\ m_pc' = "read_wait"
    /\ UNCHANGED <<action, m_version, m_write_data, m_verify_data, m_writes, out, exit_code>>

\* read_all_data has returned to the read loop
MainReadReturn ==
    /\ m_pc = "read_wait"
    /\ rc_pc = "returned"
    /\ rc_pc' = "off"
    /\ CASE rc_result.status = "panic" -> Crash
         [] rc_result.status = "err" ->
               /\ m_pc' = "read_poll"
               /\ out' = out \o <<"Error occurred. Trying again...">>
               /\ UNCHANGED exit_code
         [] OTHER -> Exit(0, <<"Data received from tag">>)
    /\ UNCHANGED <<action, m_version, m_write_data, m_verify_data, m_writes, log, tag,
                   rc, rc_address, rc_data, calls, rc_result>>

\* Action::Write, the top of the loop: the query, then
\* hex::decode(&value).unwrap()
MainWritePoll ==
    /\ m_pc = "write_poll"
    /\ \E x \in QueryExchanges(tag) :
          LET r == query(x[1], x[2])
              d == hex_decode(action.value)
          IN /\ log' = r.events
             /\ IF r.status = "panic" THEN Crash /\ UNCHANGED m_write_data
                ELSE IF r.status = "ok" /\ r.value # <<>>
                THEN IF d.status # "ok"
                     THEN /\ m_pc' = "exit"
                          /\ exit_code' = 101
                          /\ out' = <<"Tag found!">>
                          /\ UNCHANGED m_write_data
                     ELSE /\ m_pc' = "write"
                          /\ m_write_data' = d.value
                          /\ out' = <<"Tag found!">>
                          /\ UNCHANGED exit_code
                ELSE /\ out' = <<>>
                     /\ UNCHANGED <<m_pc, exit_code, m_write_data>>
    /\ UNCHANGED <<action, m_version, m_verify_data, m_writes, tag, rcVars>>

\* m100.write_data(&DEFAULT_PASSWORD, bank, 0, &mut write_data)
MainWrite ==
    /\ m_pc = "write"
    /\ \E x \in WriteExchanges(tag, action.bank, m_write_data) :
          LET r == write_data(DEFAULT_PASSWORD, action.bank, 0, m_write_data, x[1], x[2])
          IN /\ log' = log \o r.events
             /\ tag' = x[3]
             /\ m_writes' = IF r.events # <<>> /\ r.events[1].ok /\ m_writes < MaxWrites
                            THEN m_writes + 1 ELSE m_writes
             /\ CASE r.status = "panic" -> Crash
                  [] r.status = "err" ->
                        /\ m_pc' = "write_poll"
                        /\ out' = out \o <<"Error occurred during writing. Retrying...">>
                        /\ UNCHANGED exit_code
                  [] OTHER ->
                        /\ m_pc' = IF action.bank = "Epc" THEN "verify_epc" ELSE "verify_call"
                        /\ out' = out \o <<"Verifying data, please keep the tag on the reader...">>
                        /\ UNCHANGED exit_code
    /\ UNCHANGED <<action, m_version, m_write_data, m_verify_data, rcVars>>

\* the Epc bank is verified from a query: loop until a tag answers, then
\* hex::decode(qr.epc).unwrap()
MainVerifyEpc ==
    /\ m_pc = "verify_epc"
    /\ \E x \in QueryExchanges(tag) :
          LET r == query(x[1], x[2])
          IN /\ log' = r.events
             /\ IF r.status = "panic" THEN Crash /\ UNCHANGED m_verify_data
                ELSE IF r.status = "ok" /\ r.value # <<>>
                THEN LET d == hex_decode(r.value[1].epc)
                     IN IF d.status # "ok" THEN Crash /\ UNCHANGED m_verify_data
                        ELSE /\ m_verify_data' = d.value
                             /\ m_pc' = "compare"
                             /\ UNCHANGED <<out, exit_code>>
                ELSE UNCHANGED <<m_pc, out, exit_code, m_verify_data>>
    /\ UNCHANGED <<action, m_version, m_write_data, m_writes, tag, rcVars>>

\* the other banks are verified by m100.read_all_data(&DEFAULT_PASSWORD, bank)
MainVerifyCall ==
    /\ m_pc = "verify_call"
    /\ ReadAllData(action.bank)
    /\ m_pc' = "verify_wait"
    /\ UNCHANGED <<action, m_version, m_write_data, m_verify_data, m_writes, out, exit_code>>

\* read_all_data has returned to the write loop
MainVerifyReturn ==
    /\ m_pc = "verify_wait"
    /\ rc_pc = "returned"
    /\ rc_pc' = "off"
    /\ CASE rc_result.status = "panic" -> Crash /\ UNCHANGED m_verify_data
         [] rc_result.status = "err" ->
               /\ m_pc' = "write_poll"
               /\ out' = out \o <<"Error occurred during verification. Trying again...">>
               /\ UNCHANGED <<exit_code, m_verify_data>>
         [] OTHER ->
               /\ m_verify_data' = rc_result.value
               /\ m_pc' = "compare"
               /\ UNCHANGED <<out, exit_code>>
    /\ UNCHANGED <<action, m_version, m_write_data, m_writes, log, tag,
                   rc, rc_address, rc_data, calls, rc_result>>

\* if write_data != verify_data { "Verification failed"; continue }
\* "Successfully wrote data!"; break
MainCompare ==
    /\ m_pc = "compare"
    /\ IF ~Verified(m_write_data, m_verify_data)
       THEN /\ m_pc' = "write_poll"
            /\ out' = out \o <<"Verification failed. Trying again...">>
            /\ UNCHANGED exit_code
       ELSE Exit(0, <<"Successfully wrote data!">>)
    /\ UNCHANGED <<action, m_version, m_write_data, m_verify_data, m_writes, log, tag, rcVars>>

\* read_chunked_data running inside main
MainPrefixRead == m_pc \in {"read_wait", "verify_wait"} /\ PrefixRead
MainChunkRead == m_pc \in {"read_wait", "verify_wait"} /\ ChunkRead

MainNext ==
    \/ (MainOpen /\ UNCHANGED <<frameVars, opVars, fwVars>>)
    \/ (MainGetVersion /\ UNCHANGED <<frameVars, opVars, fwVars>>)
    \/ (MainReadPoll /\ UNCHANGED <<frameVars, opVars, fwVars>>)
    \/ (MainReadCall /\ UNCHANGED <<frameVars, opVars, fwVars>>)
    \/ (MainReadReturn /\ UNCHANGED <<frameVars, opVars, fwVars>>)
    \/ (MainWritePoll /\ UNCHANGED <<frameVars, opVars, fwVars>>)
    \/ (MainWrite /\ UNCHANGED <<frameVars, opVars, fwVars>>)
    \/ (MainVerifyEpc /\ UNCHANGED <<frameVars, opVars, fwVars>>)
    \/ (MainVerifyCall /\ UNCHANGED <<frameVars, opVars, fwVars>>)
    \/ (MainVerifyReturn /\ UNCHANGED <<frameVars, opVars, fwVars>>)
    \/ (MainCompare /\ UNCHANGED <<frameVars, opVars, fwVars>>)
    \/ (MainPrefixRead /\ UNCHANGED <<frameVars, opVars, fwVars, mainVars>>)
    \/ (MainChunkRead /\ UNCHANGED <<frameVars, opVars, fwVars, mainVars>>)

\* main not in use
MainIdle ==
    /\ action = [kind |-> "Identify", bank |-> "Epc", value |-> <<>>]
    /\ m_version = D("none", "", <<>>)
    /\ m_writes = 0
    /\ m_pc = "off"
    /\ m_write_data = <<>>
    /\ m_verify_data = <<>>
    /\ out = <<>>
    /\ exit_code = -1

\* the tags put in front of the reader
CliTags ==
    {[mem |-> FreshBank(n), epc |-> e, endless |-> FALSE, faithful |-> FALSE] :
        n \in {0, 4, 6}, e \in {<<17, 34>>}}

---------------------------------------------------------------------------
(* The specifications *)

OpIdle ==
    /\ op = [name |-> "none"]
    /\ reply = <<>>
    /\ result = NoResult
    /\ ostage = "off"

\* the codec alone
FrameSpecInit ==
    FrameInit /\ log = <<>> /\ OpIdle /\ FwIdle /\ RcIdle /\ tag = NoTag /\ MainIdle
SpecFrame == FrameSpecInit /\ [][FrameNext]_vars

\* one call of one session operation
OpsSpecInit == OpInit /\ FrameIdle /\ FwIdle /\ RcIdle /\ tag = NoTag /\ MainIdle
SpecOps == OpsSpecInit /\ [][OpNext]_vars

\* one call of upload_firmware
FwSpecInit ==
    /\ firmware \in Firmwares
    /\ fw_pc = 0
    /\ fw_result = "none"
    /\ log = <<>>
    /\ FrameIdle
    /\ OpIdle
    /\ RcIdle
    /\ tag = NoTag
    /\ MainIdle
SpecFw == FwSpecInit /\ [][FwNext]_vars

\* one call of read_all_data on a simulated bank
RcSpecInit ==
    /\ tag \in SimTags
    /\ log = <<>>
    /\ RcIdle
    /\ FrameIdle
    /\ OpIdle
    /\ FwIdle
    /\ MainIdle
SpecChunk == RcSpecInit /\ [][RcNext]_vars

\* one run of the program
MainSpecInit ==
    /\ action \in Actions
    /\ m_version = D("none", "", <<>>)
    /\ m_writes = 0
    /\ tag \in CliTags
    /\ m_pc = "open"
    /\ m_write_data = <<>>
    /\ m_verify_data = <<>>
    /\ out = <<>>
    /\ exit_code = -1
    /\ log = <<>>
    /\ RcIdle
    /\ FrameIdle
    /\ OpIdle
    /\ FwIdle
SpecMain == MainSpecInit /\ [][MainNext]_vars

\* one call on an M100Device: a session operation, upload_firmware or
\* read_all_data.  Which of the three it is is fixed at the start; the other
\* two are not callable (fw_pc = -1, rc_pc = "unused", ostage = "off").
SessionInit ==
    /\ log = <<>>
    /\ FrameIdle
    /\ MainIdle
    /\ op = [name |-> "none"]
    /\ reply = <<>>
    /\ result = NoResult
    /\ fw_result = "none"
    /\ rc = [bank |-> "User", start_address |-> 0, chunk_size |-> 512,
             password |-> DEFAULT_PASSWORD]
    /\ rc_address = 0
    /\ rc_data = <<>>
    /\ calls = <<>>
    /\ rc_result = NoResult
    /\ \/ /\ ostage = "idle"
          /\ firmware = <<>> /\ fw_pc = -1
          /\ tag = NoTag /\ rc_pc = "unused"
       \/ /\ ostage = "off"
          /\ firmware \in Firmwares /\ fw_pc = 0
          /\ tag = NoTag /\ rc_pc = "unused"
       \/ /\ ostage = "off"
          /\ firmware = <<>> /\ fw_pc = -1
          /\ tag \in SimTags
          /\ rc_pc = "off"
SessionNext == OpNext \/ FwNext \/ RcNext
SpecSession == SessionInit /\ [][SessionNext]_vars

\* the write loop of main against a faithful tag: a tag is always found, every
\* write is accepted and stored at address 0 of the Tid or User bank, reads
\* past the end of the bank are answered with read-memory-overrun
WriteFlowTags ==
    {[mem |-> FreshBank(n), epc |-> <<17, 34>>, endless |-> FALSE, faithful |-> TRUE] :
        n \in {4, 6, 8}}

WriteFlowInit ==
    /\ action \in {[kind |-> "Write", bank |-> b, value |-> v] :
                      b \in {"Tid", "User"}, v \in Values \ {<<"X", "Y">>}}
    /\ m_version = D("ok", "", <<77, 49, 48, 48>>)
    /\ m_writes = 0
    /\ tag \in WriteFlowTags
    /\ m_pc = "write_poll"
    /\ m_write_data = <<>>
    /\ m_verify_data = <<>>
    /\ out = <<>>
    /\ exit_code = -1
    /\ log = <<>>
    /\ RcIdle
    /\ FrameIdle
    /\ OpIdle
    /\ FwIdle

WriteFlowNext ==
    \/ (MainWritePoll /\ UNCHANGED <<frameVars, opVars, fwVars>>)
    \/ (MainWrite /\ UNCHANGED <<frameVars, opVars, fwVars>>)
    \/ (MainVerifyCall /\ UNCHANGED <<frameVars, opVars, fwVars>>)
    \/ (MainVerifyReturn /\ UNCHANGED <<frameVars, opVars, fwVars>>)
    \/ (MainCompare /\ UNCHANGED <<frameVars, opVars, fwVars>>)
    \/ (MainPrefixRead /\ UNCHANGED <<frameVars, opVars, fwVars, mainVars>>)
    \/ (MainChunkRead /\ UNCHANGED <<frameVars, opVars, fwVars, mainVars>>)

\* main is one thread that runs until it exits: it always takes its next step
SpecWriteFlow == WriteFlowInit /\ [][WriteFlowNext]_vars /\ WF_vars(WriteFlowNext)

---------------------------------------------------------------------------
(* Claims about the codec, checked under SpecFrame *)

\* the LEN field of an encoded frame, read as an unsigned big-endian number
LenField(f) == f[4] * 256 + f[5]

\* C1 (as claimed): for every command and every payload of 0..65535 bytes,
\* feeding the bytes of make_frame(command, payload) to receive_response
\* returns success with exactly that payload.
C1_RoundTrip ==
    (fstage = "done" /\ wire = frame.value /\ Len(payload) <= 65535)
        => (resp.status = "ok" /\ resp.payload = payload)

\* The round trip does hold for the payloads that fit the 1024-byte receive
\* buffer together with the 5 header and 2 trailer bytes (at most 1017 bytes).
RoundTripWithinBuffer ==
    (fstage = "done" /\ wire = frame.value /\ Len(payload) <= 1017)
        => (resp.status = "ok" /\ resp.payload = payload)

\* C5 (as claimed): whenever the last byte of a received frame, the byte after
\* the checksum, is not 0x7E, receive_response returns an error, whatever the
\* header, the length and the payload are.
C5_TerminatorEnforced ==
    (/\ fstage = "done"
     /\ Len(wire) >= 7
     /\ Len(wire) = 7 + LenField(wire)
     /\ wire[Len(wire)] # 126)
        => resp.status = "err"

\* What the code does guarantee: a frame with a wrong last byte never yields
\* a payload (it ends in an error or in a panic).
BadTailNeverParses ==
    (/\ fstage = "done"
     /\ Len(wire) >= 7
     /\ Len(wire) = 7 + LenField(wire)
     /\ wire[Len(wire)] # 126)
        => resp.status # "ok"

C10_FrameLayout ==
    fstage # "start" =>
        LET f == frame.value
            n == Len(payload)
        IN  /\ frame.status = "ok"
            /\ Len(f) = n + 7
            /\ f[1] = 187
            /\ f[2] = 0
            /\ f[3] = CommandCode(cmd)
            /\ f[4] \in 0..255
            /\ f[5] \in 0..255
            /\ SubSeq(f, 6, n + 5) = payload
            /\ f[n + 6] = SumRange(f, 2, n + 5) % 256
            /\ f[n + 7] = 126
            /\ (cmd = "Query" /\ payload = <<0, 0>>)
                  => f = <<187, 0, 34, 0, 2, 0, 0, 36, 126>>

\* C10 witness: the example frame of the specification has been encoded
C10_Witness ==
    /\ fstage = "framed"
    /\ cmd = "Query"
    /\ payload = <<0, 0>>
    /\ frame.value = <<187, 0, 34, 0, 2, 0, 0, 36, 126>>

\* a second case of C10: a checksum that wraps around 256 (payload FF FF)
C10_WrapWitness ==
    /\ fstage = "framed"
    /\ cmd = "SetHfss"
    /\ payload = <<255, 255>>
    /\ frame.value[8] = (173 + 2 + 255 + 255) % 256

---------------------------------------------------------------------------
(* Claims about upload_firmware, checked under SpecFw *)

\* the probe exchange has taken place: 0xFE was written and flushed and the
\* read of the reply was issued
ProbeReplied ==
    /\ Len(log) >= 4
    /\ log[2].op = "write" /\ log[2].arg = <<254>>
    /\ log[4].op = "read"

\* C3: if the reply to the alive-check byte 0xFE is any byte other than 0xFF,
\* or the read times out, upload_firmware returns an error and after that
\* failing read there is no baud-rate change and no further write.
C3_ProbeAbort ==
    (ProbeReplied /\ log[4].got # <<255>>)
        => /\ fw_result = "err"
           /\ \A i \in 5..Len(log) : log[i].op \notin {"baud", "write"}

\* C3 witness: the device answered the probe with 0x00 and the upload ended
C3_Witness ==
    /\ ProbeReplied
    /\ log[4].got = <<0>>
    /\ fw_result = "err"

\* C3, second case: the probe read timed out
C3_TimeoutWitness ==
    /\ ProbeReplied
    /\ log[4].got = <<>>
    /\ ~log[4].ok
    /\ fw_result = "err"

\* the port calls of the stages Probe, SpeedUp, Arm and Stream, in order
ExpectedCalls(fw) ==
    << <<"baud", <<9600>>>>, <<"write", <<254>>>>, <<"flush", <<>>>>, <<"read", <<1>>>>,
       <<"write", <<181>>>>, <<"flush", <<>>>>, <<"sleep", <<50>>>>, <<"baud", <<115200>>>>,
       <<"write", <<255, 219>>>>, <<"flush", <<>>>>, <<"read", <<1>>>>,
       <<"write", <<253>>>>, <<"flush", <<>>>>,
       <<"write", fw>>, <<"flush", <<>>>> >>

\* the port call log[i] failed: it returned an error, or it read a handshake
\* byte other than the expected one
CallFailed(i) ==
    \/ ~log[i].ok
    \/ i = 4 /\ log[i].got # <<255>>
    \/ i = 11 /\ log[i].got # <<191>>

C4_ArmWitness ==
    /\ Len(log) = 11
    /\ log[11].got = <<255>>
    /\ fw_result = "err"

---------------------------------------------------------------------------
(* Claims about the session operations, checked under SpecOps *)

\* the call received a well-terminated response whose payload is the one byte b
GotSingleByte(b) ==
    /\ ostage = "returned"
    /\ Len(log) = 5
    /\ log[3].got[4] = 0 /\ log[3].got[5] = 1
    /\ log[4].got = <<b>>
    /\ log[5].got[2] = 126

\* C6 (as claimed): for every session operation that performs a round trip, a
\* well-terminated response whose payload is one byte, that byte being one of
\* the error codes 0x09, 0xA3, 0xB0, 0x10, makes the operation return an error.
C6_ErrorCodesNeverData ==
    \A b \in {9, 163, 176, 16} : GotSingleByte(b) => result.status = "err"

\* What the code does: read_data takes 0x09 and 0xA3 for errors, write_data
\* 0xB0 and 0x10, get_version the two codes that are not UTF-8 (0xA3, 0xB0).
ErrorCodesPerOperation ==
    \A b \in {9, 163, 176, 16} : GotSingleByte(b) =>
        (result.status = "err" <=>
            \/ op.name = "read_data" /\ b \in {9, 163}
            \/ op.name = "write_data" /\ b \in {176, 16}
            \/ op.name = "get_version" /\ b \in {163, 176})

\* C8: read_data called with data_length 0 or with an odd data_length returns
\* a validation error, and in that call nothing is written to the port and no
\* read is issued.  (data_length is a u16: a length above 65535 cannot be
\* passed.)
C8_LengthValidation ==
    (/\ ostage = "returned"
     /\ op.name = "read_data"
     /\ (op.data_length = 0 \/ op.data_length % 2 = 1))
        => /\ result.status = "err"
           /\ result.err = "validation"
           /\ log = <<>>

\* C8 witness: read_data was called with length 0 and refused
C8_Witness ==
    /\ ostage = "returned"
    /\ op.name = "read_data"
    /\ op.data_length = 0
    /\ result.err = "validation"

\* C8, second case: an odd length at the top of the u16 range
C8_OddWitness ==
    /\ ostage = "returned"
    /\ op.name = "read_data"
    /\ op.data_length = 65535
    /\ result.err = "validation"

\* read_data with a positive even length does go to the port
ReadDataSends ==
    (/\ ostage = "returned"
     /\ op.name = "read_data"
     /\ op.data_length # 0 /\ op.data_length % 2 = 0)
        => (Len(log) >= 1 /\ log[1].op = "write")

---------------------------------------------------------------------------
(* Claims about read_chunked_data, checked under SpecChunk *)

\* read_chunked_data has returned (read_all_data on a bank other than
\* Reserved), on a tag whose bank has a finite length
ChunkedReturned == rc_pc = "returned" /\ rc.bank # "Reserved" /\ ~tag.endless

\* the bytes of the bank up to the first chunk that is out of range: the
\* prefix [0, start_address) and every whole chunk that fits after it
UpToFirstOutOfRange ==
    LET k == (Len(tag.mem) - rc.start_address) \div rc.chunk_size
    IN SubSeq(tag.mem, 1, rc.start_address + k * rc.chunk_size)

\* the read_data calls made: only the last one failed, and the chunk reads
\* went up in address order from start_address
CallsStopAtFirstFailure ==
    /\ \A i \in 1..(Len(calls) - 1) : calls[i].status = "ok"
    /\ Len(calls) >= 1 /\ calls[Len(calls)].status # "ok"
    /\ LET first == IF rc.start_address # 0 THEN 2 ELSE 1
       IN \A i \in first..Len(calls) :
             /\ calls[i].address = rc.start_address + (i - first) * rc.chunk_size
             /\ calls[i].data_length = rc.chunk_size

\* C2 (as claimed): for a bank of known finite length whose reads succeed in
\* range and fail out of range, read_chunked_data returns success, never an
\* error; the result is the prefix [0, start_address) followed by the chunks
\* returned before the first failing chunk read, in address order, with
\* nothing of the failing read; no read is issued after the first failure.
C2_ChunkedReadTermination ==
    ChunkedReturned =>
        /\ rc_result.status = "ok"
        /\ Len(tag.mem) >= rc.start_address => rc_result.value = UpToFirstOutOfRange
        /\ CallsStopAtFirstFailure

\* What the code does: the claim holds whenever the bank holds the prefix
\* [0, start_address), so that the prefix read succeeds;
ChunkedReadAfterPrefix ==
    (ChunkedReturned /\ Len(tag.mem) >= rc.start_address) =>
        /\ rc_result.status = "ok"
        /\ rc_result.value = UpToFirstOutOfRange
        /\ CallsStopAtFirstFailure

\* and when the bank is shorter than start_address the failure of the prefix
\* read is returned as the error of read_chunked_data, after that one read.
ShortBankIsError ==
    (ChunkedReturned /\ Len(tag.mem) < rc.start_address) =>
        /\ rc_result.status = "err"
        /\ Len(calls) = 1

\* a chunked read that collected the prefix and three chunks of a Tid bank
ChunkedReadWitness ==
    /\ ChunkedReturned
    /\ rc.bank = "Tid"
    /\ Len(tag.mem) = 11
    /\ rc_result.value = SubSeq(tag.mem, 1, 10)
    /\ Len(calls) = 5

---------------------------------------------------------------------------
(* Claims checked under SpecMain *)

LastLine == IF out = <<>> THEN "" ELSE out[Len(out)]

\* success is printed only over equal bytes
SuccessOnlyWhenEqual ==
    LastLine = "Successfully wrote data!" => m_verify_data = m_write_data

\* the comparison over different bytes prints the failure and goes back to
\* the query at the top of the loop, main still running
MismatchRestarts ==
    (m_pc = "compare" /\ m_verify_data # m_write_data)
        => /\ m_pc' = "write_poll"
           /\ out' = Append(out, "Verification failed. Trying again...")
           /\ exit_code' = -1

\* one turn of the write loop is the query, then the write, then the
\* verification, then the comparison
WriteLoopOrder ==
    /\ m_pc = "write_poll" => m_pc' \in {"write_poll", "write", "exit"}
    /\ m_pc = "write" => m_pc' \in {"verify_epc", "verify_call", "write_poll", "exit"}
    /\ m_pc = "verify_epc" => m_pc' \in {"verify_epc", "compare", "exit"}
    /\ m_pc = "verify_call" => m_pc' = "verify_wait"
    /\ m_pc = "verify_wait" => m_pc' \in {"verify_wait", "compare", "write_poll", "exit"}
    /\ m_pc = "compare" => m_pc' \in {"write_poll", "exit"}

C7_SuccessWitness ==
    /\ m_pc = "exit"
    /\ exit_code = 0
    /\ LastLine = "Successfully wrote data!"
    /\ m_write_data # <<>>

---------------------------------------------------------------------------
(* Claims about the port calls of one call on the device, checked under      *)
(* SpecSession                                                               *)

\* the call of the run has returned
SessionReturned ==
    \/ ostage = "returned"
    \/ fw_result \in {"ok", "err", "panic"}
    \/ rc_pc = "returned"

\* the next port call of upload_firmware is a flush
FlushIsNext ==
    /\ fw_result = "running"
    /\ fw_pc \in 1..Len(UploadProgram(firmware))
    /\ UploadProgram(firmware)[fw_pc].op = "flush"

\* C11: every write on the port is immediately followed by a flush: in the
\* log of port calls the entry after a write is a flush (never a read, a
\* baud-rate change, a sleep or another write), and a write that is the last
\* entry either failed, which ended the operation with that error, or is
\* about to be flushed by the next statement of upload_firmware.
C11_WriteThenFlush ==
    \A i \in 1..Len(log) :
        log[i].op = "write" =>
            IF i < Len(log)
            THEN log[i].ok /\ log[i + 1].op = "flush"
            ELSE \/ ~log[i].ok /\ SessionReturned
                 \/ log[i].ok /\ FlushIsNext

\* a session operation wrote its command, flushed and read a response
C11_Witness ==
    /\ ostage = "returned"
    /\ result.status = "ok"
    /\ Len(log) >= 3
    /\ log[1].op = "write" /\ log[2].op = "flush" /\ log[2].ok /\ log[3].op = "read"

\* upload_firmware went through all its writes
C11_UploadWitness ==
    /\ fw_result = "ok"
    /\ Cardinality({i \in 1..Len(log) : log[i].op = "write"}) = 6

---------------------------------------------------------------------------
(* Claims about read_all_data, checked under SpecChunk *)

\* C12: read_all_data on the Reserved bank returns a validation error at
\* once, whatever the password and whatever the tag holds: it makes no
\* read_data call and no call on the port (no write, flush or read).
C12_ReservedRejected ==
    (rc_pc # "off" /\ rc.bank = "Reserved")
        => /\ rc_pc = "returned"
           /\ rc_result.status = "err"
           /\ rc_result.err = "validation"
           /\ calls = <<>>
           /\ log = <<>>

\* Reserved was asked for with another password on a tag that holds data
C12_Witness ==
    /\ rc_pc = "returned"
    /\ rc.bank = "Reserved"
    /\ rc.password # DEFAULT_PASSWORD
    /\ tag.mem # <<>>

---------------------------------------------------------------------------
(* Claims about the identify subcommand, checked under SpecMain *)

\* the frames main has written to the port
FramesWritten == {log[i].arg : i \in {j \in 1..Len(log) : log[j].op = "write"}}

\* C13: with the identify subcommand main never enters a polling loop and
\* writes no frame but the GetVersion command (no Query, ReadData or
\* WriteData); when get_version succeeds it prints the version and exits
\* with status 0.  With any subcommand, when get_version fails main has
\* exited with a non-zero status and has written no frame but the GetVersion
\* command.
C13_IdentifyFlow ==
    /\ action.kind = "Identify" =>
          /\ m_pc \in {"open", "get_version", "exit"}
          /\ FramesWritten \subseteq {protocol_get_version.value}
          /\ m_version.status = "ok" =>
                /\ m_pc = "exit"
                /\ exit_code = 0
                /\ out = <<"Identity">>
    /\ m_version.status \in {"err", "panic"} =>
          /\ m_pc = "exit"
          /\ exit_code \notin {-1, 0}
          /\ FramesWritten \subseteq {protocol_get_version.value}

\* identify answered with a version: printed, exit status 0
C13_Witness ==
    /\ action.kind = "Identify"
    /\ m_version.status = "ok"
    /\ m_version.value = <<77, 49, 48, 48>>
    /\ FramesWritten = {protocol_get_version.value}
    /\ exit_code = 0

\* get_version failed on a timeout: exit status 1
C13_FailedWitness ==
    /\ m_version.status = "err"
    /\ exit_code = 1
    /\ Len(log) = 3

---------------------------------------------------------------------------
(* Claims about write_data and query, checked under SpecOps *)

\* the device's reply is a whole frame that ends in the terminator
WellTerminated(rx) ==
    /\ Len(rx) >= 7
    /\ Len(rx) = 7 + LenField(rx)
    /\ rx[Len(rx)] = MAGICRF_TAIL

\* the payload such a frame carries
PayloadOf(rx) == SubSeq(rx, 6, Len(rx) - 2)

\* the command went out: the write and the flush both returned Ok
CommandSent == Len(log) >= 2 /\ log[1].ok /\ log[2].ok

\* write_data sends the frame of the WriteEpc encoder for the Epc bank and
\* the frame of the WriteData encoder for the other banks
WriteRouting ==
    (ostage = "returned" /\ op.name = "write_data" /\ log # <<>>)
        => log[1].arg =
              IF op.bank = "Epc"
              THEN protocol_write_epc(DEFAULT_PASSWORD, op.data).value
              ELSE protocol_write_data(DEFAULT_PASSWORD, op.bank, op.address, op.data).value

\* C14: once write_data has sent its command, a well-terminated response
\* makes it return an error exactly when its payload is the single byte 0xB0
\* or 0x10, and success for every other payload (another single byte, none,
\* or a longer one); the Epc bank goes to the WriteEpc encoder.
C14_WriteOutcome ==
    /\ (ostage = "returned" /\ op.name = "write_data" /\ CommandSent /\ WellTerminated(reply))
          => result.status = IF PayloadOf(reply) \in {<<176>>, <<16>>} THEN "err" ELSE "ok"
    /\ WriteRouting

\* What the code does: the same, for responses that fit the receive buffer
\* (a length field of at most 1017).
WriteOutcomeWithinBuffer ==
    /\ (/\ ostage = "returned" /\ op.name = "write_data" /\ CommandSent
        /\ WellTerminated(reply) /\ LenField(reply) <= READ_BUF_LEN - 7)
          => result.status = IF PayloadOf(reply) \in {<<176>>, <<16>>} THEN "err" ELSE "ok"
    /\ WriteRouting

\* write_data took another single byte for success
WriteOutcomeWitness ==
    /\ ostage = "returned"
    /\ op.name = "write_data"
    /\ op.bank = "Epc"
    /\ PayloadOf(reply) = <<163>>
    /\ result.status = "ok"

\* str is the uppercase hex encoding of bytes: it decodes to them and holds
\* no lowercase digit
UpperHexOf(str, bytes) ==
    /\ Len(str) = 2 * Len(bytes)
    /\ hex_decode(str) = Ok(bytes)
    /\ \A k \in 1..Len(str) : str[k] \notin {"a", "b", "c", "d", "e", "f"}

\* what query is to return for the payload p
QueryExtracts(p) ==
    IF Len(p) <= 1
    THEN result.status = "ok" /\ result.value = <<>>
    ELSE /\ result.status = "ok"
         /\ Len(result.value) = 1
         /\ result.value[1].rssi = p[1]
         /\ UpperHexOf(result.value[1].epc, SubSeq(p, 4, Len(p) - 2))

\* C15: for every well-terminated Query response, a payload of 0 or 1 bytes
\* gives "no tag", and a payload of n >= 2 bytes gives a TagInfo with rssi =
\* payload byte 0 and epc = the uppercase hex of payload bytes [3, n - 2);
\* query does not crash for any payload length.
C15_QueryExtraction ==
    (ostage = "returned" /\ op.name = "query" /\ CommandSent /\ WellTerminated(reply))
        => QueryExtracts(PayloadOf(reply))

\* What the code does: the same for payloads of 0, 1 or at least 5 bytes that
\* fit the receive buffer.
QueryExtractionFromFive ==
    (/\ ostage = "returned" /\ op.name = "query" /\ CommandSent
     /\ WellTerminated(reply)
     /\ LenField(reply) \notin 2..4
     /\ LenField(reply) <= READ_BUF_LEN - 7)
        => QueryExtracts(PayloadOf(reply))

\* ... and a panic for payloads of 2, 3 or 4 bytes
QueryShortPayloadPanics ==
    (/\ ostage = "returned" /\ op.name = "query" /\ CommandSent
     /\ WellTerminated(reply)
     /\ LenField(reply) \in 2..4)
        => result.status = "panic"

\* query took the one byte between the header and the CRC for the EPC
QueryExtractionWitness ==
    /\ ostage = "returned"
    /\ op.name = "query"
    /\ PayloadOf(reply) = <<65, 66, 65, 66, 65, 66>>
    /\ result.status = "ok"
    /\ result.value[1].epc = <<"4", "2">>

---------------------------------------------------------------------------
(* Claims about the address of read_chunked_data, checked under SpecChunk *)

\* the index in calls of the first chunk read (the prefix read comes before it)
FirstChunk == IF rc.start_address # 0 THEN 2 ELSE 1

\* the chunk reads that returned Ok
ChunksRead == Cardinality({i \in FirstChunk..Len(calls) : calls[i].status = "ok"})

\* read_chunked_data is in its loop or has left it
InLoop == rc_pc \in {"loop", "returned"} /\ rc.bank # "Reserved" /\ Len(calls) >= FirstChunk - 1

\* C18: the k-th chunk read (k = 0, 1, 2, ...) is made at address
\* start_address + k * chunk_size, the local address is start_address plus
\* chunk_size for every chunk read so far, and both fit in 16 bits: the
\* addition never overflows (no panic) and never wraps to a lower value,
\* whatever the device does, a device that answers every read included.
C18_AddressArithmetic ==
    /\ \A i \in FirstChunk..Len(calls) :
          /\ calls[i].address = rc.start_address + (i - FirstChunk) * rc.chunk_size
          /\ calls[i].address < U16
    /\ (InLoop /\ (rc_pc = "loop" \/ rc_result.status = "ok")) =>
          /\ rc_address = rc.start_address + ChunksRead * rc.chunk_size
          /\ rc_address < U16
    /\ rc_result.status # "panic" \/ rc_result.err # "overflow"

\* What the code does: the same as long as start_address plus the chunks read
\* stays below 2^16
AddressArithmeticBelowWrap ==
    (InLoop /\ rc.start_address + ChunksRead * rc.chunk_size < U16) =>
        /\ \A i \in FirstChunk..Len(calls) :
              calls[i].address = rc.start_address + (i - FirstChunk) * rc.chunk_size
        /\ (rc_pc = "loop" \/ rc_result.status = "ok") =>
              rc_address = rc.start_address + ChunksRead * rc.chunk_size
        /\ rc_result.status # "panic" \/ rc_result.err # "overflow"

\* ... and at the 128th chunk of 512 bytes the addition overflows: a panic,
\* or the address wrapped around to 0
AddressWraps ==
    (InLoop /\ rc.start_address + ChunksRead * rc.chunk_size >= U16) =>
        \/ rc_result.status = "panic" /\ rc_result.err = "overflow"
        \/ rc_address = (rc.start_address + ChunksRead * rc.chunk_size) % U16

\* the User bank read up to its 100th chunk
AddressArithmeticWitness ==
    /\ rc_pc = "loop"
    /\ rc.bank = "User"
    /\ ChunksRead = 100
    /\ rc_address = 51200

---------------------------------------------------------------------------
(* Claims about retries, checked under SpecSession *)

PortCalls(o) == Cardinality({i \in 1..Len(log) : log[i].op = o})

\* one call of a session operation writes at most one frame and receives at
\* most one response (the three read_exact calls of one receive_response)
OneRoundTrip ==
    ostage = "returned" => PortCalls("write") <= 1 /\ PortCalls("read") <= 3

\* inside read_all_data every read_data call writes at most one frame
OneFramePerRead ==
    rc_pc \in {"prefix", "loop", "returned"} =>
        /\ PortCalls("write") <= Len(calls)
        /\ PortCalls("read") <= 3 * Len(calls)

\* the read_data calls made so far went to as many addresses as there are calls
NoAddressTwice ==
    Cardinality({calls[i].address : i \in 1..Len(calls)}) = Len(calls)

\* C16: no operation retries: one call of get_version, set_hfss_status,
\* query, read_data, write_data or disable_sleep writes at most one command
\* frame and receives at most one response, whether it succeeds or fails;
\* read_chunked_data makes one round trip per read_data call and never reads
\* an address twice.
C16_NoRetry == OneRoundTrip /\ OneFramePerRead /\ NoAddressTwice

\* What the code does: no address is read twice as long as the address has
\* not wrapped around
NoAddressTwiceBelowWrap ==
    (rc_pc \in {"prefix", "loop", "returned"}
        /\ rc.start_address + ChunksRead * rc.chunk_size < U16)
        => NoAddressTwice

NoRetryBelowWrap == OneRoundTrip /\ OneFramePerRead /\ NoAddressTwiceBelowWrap

\* a chunk read failed and read_chunked_data returned without asking again
NoRetryWitness ==
    /\ rc_pc = "returned"
    /\ rc.bank = "User"
    /\ ~tag.endless
    /\ Len(calls) = 3
    /\ calls[3].status = "err"
    /\ PortCalls("write") = 3

---------------------------------------------------------------------------
(* Claims about the receive buffer, checked under SpecFrame *)

\* the header of the response arrived
HeaderArrived == fstage = "done" /\ Len(wire) >= 5

\* the bytes receive_response asked the port for, all its read_exact calls
\* together
BytesAskedFor == SumRange(resp.reads, 1, Len(resp.reads))

\* C17: whatever length field (0x0000..0xFFFF) the 5-byte header carries,
\* receive_response ends by returning a payload of exactly that length or an
\* error; it never aborts on an index outside the 1024-byte receive buffer
\* or on a negative or wrapped length, and it never asks for more bytes than
\* the buffer holds.
C17_ReceiveBufferSafety ==
    HeaderArrived =>
        /\ resp.status \in {"ok", "err"}
        /\ resp.status = "ok" => Len(resp.payload) = LenField(wire)
        /\ BytesAskedFor <= READ_BUF_LEN

\* What the code does: this holds for length fields up to 1017, the frames
\* that fit the buffer with their header and trailer;
ReceiveSafeWithinBuffer ==
    (HeaderArrived /\ LenField(wire) <= READ_BUF_LEN - 7) =>
        /\ resp.status \in {"ok", "err"}
        /\ resp.status = "ok" => Len(resp.payload) = LenField(wire)
        /\ BytesAskedFor <= READ_BUF_LEN

\* beyond that no payload is ever returned, and from 1020 on (the negative
\* lengths 0x8000..0xFFFF included) receive_response panics on the slice for
\* the body
ReceiveBeyondBuffer ==
    (HeaderArrived /\ LenField(wire) > READ_BUF_LEN - 7) =>
        /\ resp.status # "ok"
        /\ LenField(wire) >= READ_BUF_LEN - 4 => resp.status = "panic"

\* a frame of the largest length that fits was received whole
ReceiveSafeWitness ==
    /\ HeaderArrived
    /\ LenField(wire) = 1017
    /\ resp.status = "ok"
    /\ Len(resp.payload) = 1017

---------------------------------------------------------------------------
(* Claims about the prefix read, checked under SpecChunk *)

\* the read of [0, start_address) was made and failed
PrefixReadFailed ==
    /\ rc.bank \in {"Epc", "Tid"}
    /\ Len(calls) >= 1
    /\ calls[1].status # "ok"

\* C19: when start_address is not 0 (Epc: 12, Tid: 4) and the first read, of
\* [0, start_address), fails, read_chunked_data returns the error of that
\* read, not a success with no or with some data, and makes no chunk read:
\* the prefix read stays its only read_data call.
C19_PrefixFailureIsError ==
    PrefixReadFailed =>
        /\ calls[1].address = 0
        /\ calls[1].data_length = rc.start_address
        /\ rc_pc = "returned"
        /\ rc_result.status = "err"
        /\ rc_result.err = calls[1].err
        /\ rc_result.value = <<>>
        /\ Len(calls) = 1

\* the Epc bank of a tag that holds 11 bytes: the read of [0, 12) was
\* answered with read-memory-overrun
C19_Witness ==
    /\ PrefixReadFailed
    /\ rc.bank = "Epc"
    /\ Len(tag.mem) = 11
    /\ rc_result.err = "HEXIN_ERROR_READ_MEMORY_OVERRUN"

---------------------------------------------------------------------------
(* Claims about the end of the write flow, checked under SpecWriteFlow *)

\* main has printed the success line and returned
WriteSucceeded ==
    /\ m_pc = "exit"
    /\ exit_code = 0
    /\ LastLine = "Successfully wrote data!"

\* C20: against a tag that is always found, accepts every write, stores the
\* bytes at address 0 of its User or Tid bank and reports read-memory-overrun
\* past the end of the bank, the write flow eventually prints success and
\* stops, and it never sends a second write command.
C20_WriteFlowTerminates == <>WriteSucceeded /\ [](m_writes <= 1)

\* What the code does: the flow succeeds, after one write, when the bytes
\* written are the whole of what read_all_data reads back (here the 4 bytes
\* of a 4-byte Tid bank)
ExactFit ==
    /\ action.bank = "Tid"
    /\ Len(tag.mem) = 4
    /\ Len(hex_decode(action.value).value) = 4

\* success is printed only for an exact fit, and then after one write
WriteFlowSucceedsOnExactFit ==
    WriteSucceeded => (ExactFit /\ m_writes = 1 /\ m_verify_data = m_write_data)

WriteFlowExactFitWitness == WriteSucceeded /\ ExactFit

\* ... otherwise the bytes read back are the bank, not the bytes written,
\* and the flow writes again and again
WriteFlowRewrites == ~ExactFit => <>(m_writes = MaxWrites)

\* a 6-byte Tid bank after the second write of the same 4 bytes
WriteFlowSecondWrite ==
    /\ m_writes = 2
    /\ action.bank = "Tid"
    /\ Len(tag.mem) = 6
    /\ SubSeq(tag.mem, 1, 4) = m_write_data

===========================================================================
